---- MODULE Spec2Model ----
(***************************************************************************)
(* Model of the Production-Ready-DevOps-Projects repository:               *)
(*   - the Express demo app (app.js, two variants: without and with the    *)
(*     PostgreSQL pool),                                                   *)
(*   - aws-setup.sh (ECS/ECR provisioning through the AWS CLI),            *)
(*   - setup-eks.sh (EKS provisioning through eksctl/helm/kubectl).        *)
(* Each program has its own specification (SpecApp, SpecAws, SpecEks);     *)
(* the variables of the other programs stay at their initial values.       *)
(***************************************************************************)
EXTENDS Integers, Sequences, FiniteSets, TLC

VARIABLES
  \* ---- Express app ----
  appVariant,   \* which app.js is loaded: "basic" (no database) or "db"
  ENVIRONMENT,  \* process.env.ENVIRONMENT || 'development'
  publicDir,    \* contents of the static directory 'public': file -> content kind
  dbUp,         \* whether the PostgreSQL server answers pool.query
  stage,        \* position of the request in the middleware chain
  req,          \* the request being handled
  err,          \* the error passed to next(err), "none" when there is none
  res,          \* the response sent for the request
  sent,         \* number of responses sent for the request
  \* ---- aws-setup.sh ----
  aws,          \* the AWS account: which resources exist
  jqInstalled,  \* whether jq is on the operator's PATH
  awsPc,        \* the next command of the running script; "idle", "exited"
  awsRun,       \* number of runs started so far
  awsCalls,     \* aws commands invoked by the current run and their exit status, in order
  awsExit,      \* exit status of the current run (-1 while it runs)
  awsPrevExit,  \* exit status of the previous run (-1 when there is none)
  awsFaults,    \* calls of the current run that failed for an outside reason
  awsAbsent,    \* resources that were absent when the current run queried them
  awsQErr,      \* resources whose existence query failed for an outside reason
  awsOut,       \* what the current run showed on the terminal
  sh,           \* the shell variables the script assigns
  awsEnv,       \* CLUSTER_NAME as the operator set it before running ("": not set)
  awsDefaultRegion, \* the region of the operator's AWS CLI configuration
  awsAtStart,   \* the AWS account as it was when the current run started
  \* ---- setup-eks.sh ----
  eksArgv,      \* the command line the operator gives (the same in every run)
  eksTools,     \* the CLIs on the operator's PATH
  eks,          \* the cluster named by the arguments and what is installed on it
  opt,          \* the script's option variables after argument parsing
  eksPc,        \* the next step of the running script; "idle", "exited"
  eksRun,       \* number of runs started so far
  eksCalls,     \* external commands invoked by the current run and their status
  eksExit,      \* exit status of the current run (-1 while it runs)
  eksPrevExit,  \* exit status of the previous run (-1 when there is none)
  eksFaults,    \* calls of the current run that failed for an outside reason
  eksQErr,      \* resources whose existence query failed for an outside reason
  eksOut,       \* what the current run showed on the terminal
  \* ---- server.js ----
  serverState,  \* "listening", "closing" (server.close was called) or "exited"
  connections,  \* each client connection: "closed", "idle" or "active" (a request is being served)
  signals,      \* the signals delivered to the process so far, in order
  closeListeners, \* callbacks registered on the server's 'close' event
  processExit,  \* the process's exit status (-1 while it runs)
  openAtSignal, \* connections that were open when the first signal arrived
  \* ---- setup-eks.sh: the text of the create command ----
  cmdOpt,       \* CLUSTER_NAME, REGION, NODE_TYPE and PROFILE as character strings
  EKSCOMMAND,   \* the array of words of the create command
  cmdRan,       \* what eval made of the command text
  cmdPc         \* where the cluster-creation step is

eksVars == <<eksArgv, eksTools, eks, opt, eksPc, eksRun, eksCalls, eksExit, eksPrevExit,
             eksFaults, eksQErr, eksOut>>

awsVars == <<aws, jqInstalled, awsPc, awsRun, awsCalls, awsExit, awsPrevExit,
             awsFaults, awsAbsent, awsQErr, awsOut, sh, awsEnv, awsDefaultRegion, awsAtStart>>

srvVars == <<serverState, connections, signals, closeListeners, processExit, openAtSignal>>

evalVars == <<cmdOpt, EKSCOMMAND, cmdRan, cmdPc>>

appVars == <<appVariant, ENVIRONMENT, publicDir, dbUp, stage, req, err, res, sent>>

(***************************************************************************)
(*                         The Express demo app                            *)
(***************************************************************************)

Environments == {"development", "production"}
Methods == {"GET", "HEAD", "POST", "OPTIONS"}
Paths == {"/", "/health", "/api/info", "/api/system", "/db-check", "/logo.png", "/nope"}
\* The request body as express.json() sees it: no body, a JSON content type
\* with well-formed JSON, or a JSON content type with malformed JSON.
BodyKinds == {"none", "json_ok", "json_bad"}
\* An exception raised by the code of the route handler that serves the
\* request ("none": the handler's code raises nothing).
Thrown == {"none", "EBOOM"}
\* Files the static directory may hold, and what a file may contain.
PublicFiles == {"index.html", "health", "logo.png"}
FileContents == {"absent", "other", "titled"}

TitleString == "My AWS DevOps Web App"
NoReq == [method |-> "-", path |-> "-", body |-> "none", thrown |-> "none"]
NoRes == [status |-> 0, ctype |-> "-", body |-> [empty |-> TRUE]]

Requests == [method : Methods, path : Paths, body : BodyKinds, thrown : Thrown]

\* app.get(path, ...) registrations of the loaded app.js, in order.
GetRoutes ==
  IF appVariant = "db"
    THEN {"/", "/health", "/api/info", "/api/system", "/db-check"}
    ELSE {"/", "/health", "/api/info", "/api/system"}

\* The array literal of the 404 handler.
availableEndpoints ==
  IF appVariant = "db"
    THEN {"/", "/health", "/api/info", "/api/system", "/db-check"}
    ELSE {"/", "/health", "/api/info", "/api/system"}

\* Express Route._handles_method: a route registered with app.get also
\* handles HEAD (there is no app.head registration).
HandlesMethod(method) == method \in {"GET", "HEAD"}

RouteMatches(r, path) == path \in GetRoutes /\ HandlesMethod(r.method) /\ r.path = path

\* res.send / res.json: status, Content-Type and body; for a HEAD request
\* Express ends the response without the body.
Send(r, status, ctype, body) ==
  [status |-> status, ctype |-> ctype,
   body |-> IF r.method = "HEAD" THEN [empty |-> TRUE] ELSE body]

\* serve-static: the file under 'public' a request path names ("/" names
\* the directory index).
StaticFile(path) ==
  CASE path = "/" -> "index.html"
    [] path = "/health" -> "health"
    [] path = "/logo.png" -> "logo.png"
    [] OTHER -> "none"

MimeType(file) ==
  CASE file = "index.html" -> "text/html"
    [] file = "logo.png" -> "image/png"
    [] OTHER -> "application/octet-stream"

\* The error message the error handler puts in its body.
ErrorMessage(e) == IF ENVIRONMENT = "production" THEN "Something went wrong" ELSE e

\* The AWS account with none of the script's resources.
EmptyAccount ==
  [repo |-> FALSE, role |-> FALSE, rolePolicy |-> FALSE, cluster |-> FALSE,
   defaultVpc |-> TRUE, sg |-> FALSE, sgIngress |-> FALSE, logGroup |-> FALSE,
   taskDefs |-> 0, service |-> FALSE, user |-> FALSE, userPolicies |-> {},
   accessKeys |-> 0]

\* AWS_REGION="us-east-1": the region the script is configured for.
AWS_REGION == "us-east-1"

\* The regions the operator's AWS CLI may be configured for.
Regions == {"us-east-1", "eu-west-1"}

\* The commands whose command line carries '--region $AWS_REGION'.
RegionFlagged ==
  {"ecr describe-repositories", "ecr create-repository", "ecs describe-clusters",
   "ecs create-cluster", "logs create-log-group", "ecs register-task-definition",
   "ecs describe-services", "ecs create-service"}

\* The region a command acts on: the one of its --region option, or
\* without the option the one of the CLI configuration.
TargetRegion(cmd, defaultRegion) ==
  IF cmd \in RegionFlagged THEN AWS_REGION ELSE defaultRegion

\* The shell variables before the script assigns them.
NoSh ==
  [CLUSTER_NAME |-> "", ECR_URI |-> "", EXECUTION_ROLE_ARN |-> "", DEFAULT_VPC |-> "",
   SUBNETS |-> "", SECURITY_GROUP_ID |-> "", ACCESS_KEY_OUTPUT |-> ""]

\* The configuration variables: the script assigns CLUSTER_NAME itself,
\* whatever value the variable had in the operator's shell.
ConfigVars(env) == [NoSh EXCEPT !.CLUSTER_NAME = "webapp-cicd-cluster"]

\* aws-setup.sh is not running.
AwsAtRest ==
  /\ aws = EmptyAccount
  /\ jqInstalled = TRUE
  /\ awsPc = "idle"
  /\ awsRun = 0
  /\ awsCalls = <<>>
  /\ awsExit = -1
  /\ awsPrevExit = -1
  /\ awsFaults = 0
  /\ awsAbsent = {}
  /\ awsQErr = {}
  /\ awsOut = {}
  /\ sh = NoSh
  /\ awsEnv = ""
  /\ awsDefaultRegion = AWS_REGION
  /\ awsAtStart = EmptyAccount

\* The defaults of setup-eks.sh, before the command line is parsed.
DefaultOpt ==
  [CLUSTER_NAME |-> "my-webapp-cluster", REGION |-> "us-east-1", NODE_TYPE |-> "t3.medium",
   KMS_CREATE |-> FALSE, PROFILE |-> <<>>, ENABLE_ALB |-> TRUE, ENABLE_AUTOSCALER |-> TRUE,
   ENABLE_CW_LOGGING |-> TRUE, KMS_KEY_ID |-> "", status |-> "ok"]

\* No cluster, nothing installed.
NoCluster ==
  [cluster |-> FALSE, spot |-> FALSE, kmsKeys |-> 0, logging |-> FALSE, oidc |-> FALSE,
   albSa |-> FALSE, albChart |-> FALSE, asSa |-> FALSE, asManifest |-> FALSE]

RequiredTools == {"aws", "eksctl", "kubectl", "helm", "jq"}

\* setup-eks.sh is not running.
EksAtRest ==
  /\ eksArgv = <<>>
  /\ eksTools = RequiredTools
  /\ eks = NoCluster
  /\ opt = DefaultOpt
  /\ eksPc = "idle"
  /\ eksRun = 0
  /\ eksCalls = <<>>
  /\ eksExit = -1
  /\ eksPrevExit = -1
  /\ eksFaults = 0
  /\ eksQErr = {}
  /\ eksOut = {}

\* Client connections the model follows.
MaxConns == 3
Conns == 1..MaxConns

\* The process has started and listens; nothing has connected.
ServerAtRest ==
  /\ serverState = "listening"
  /\ connections = [c \in Conns |-> "closed"]
  /\ signals = <<>>
  /\ closeListeners = 0
  /\ processExit = -1
  /\ openAtSignal = 0

\* A word of a command line as a string of characters; a word the script
\* writes itself is kept as one character.
Word(w) == <<w>>

\* eval has not run.
NoRan == [syntaxError |-> FALSE, commands |-> <<>>]

\* The cluster-creation step has not been reached; the options have their
\* defaults.
EvalAtRest ==
  /\ cmdOpt = [CLUSTER_NAME |-> Word("my-webapp-cluster"), REGION |-> Word("us-east-1"),
               NODE_TYPE |-> Word("t3.medium"), PROFILE |-> <<>>]
  /\ EKSCOMMAND = <<>>
  /\ cmdRan = NoRan
  /\ cmdPc = "idle"

\* The app is not serving.
AppAtRest ==
  /\ appVariant = "basic"
  /\ ENVIRONMENT = "development"
  /\ publicDir = [f \in PublicFiles |-> "absent"]
  /\ dbUp = FALSE
  /\ stage = "idle"
  /\ req = NoReq
  /\ err = "none"
  /\ res = NoRes
  /\ sent = 0

InitApp ==
  /\ AwsAtRest
  /\ EksAtRest
  /\ ServerAtRest
  /\ EvalAtRest
  /\ appVariant \in {"basic", "db"}
  /\ ENVIRONMENT \in Environments
  /\ publicDir \in [PublicFiles -> FileContents]
  /\ dbUp \in BOOLEAN
  /\ stage = "idle"
  /\ req = NoReq
  /\ err = "none"
  /\ res = NoRes
  /\ sent = 0

\* The database server goes down or comes back (db variant only: the basic
\* app has no pool).
DbToggle ==
  /\ appVariant = "db"
  /\ stage = "idle"
  /\ dbUp' = ~dbUp
  /\ UNCHANGED <<appVariant, ENVIRONMENT, publicDir, stage, req, err, res, sent, awsVars, eksVars, srvVars, evalVars>>

\* A request arrives and enters the middleware chain.
Receive ==
  /\ stage = "idle"
  /\ \E r \in Requests :
       /\ req' = r
       /\ stage' = "json"
       /\ err' = "none"
       /\ res' = NoRes
       /\ sent' = 0
  /\ UNCHANGED <<appVariant, ENVIRONMENT, publicDir, dbUp, awsVars, eksVars, srvVars, evalVars>>

\* app.use(express.json()): a malformed JSON body is passed on as an error
\* (next(err)), which skips every non-error middleware and route.
JsonMiddleware ==
  /\ stage = "json"
  /\ IF req.body = "json_bad"
       THEN err' = "Unexpected token in JSON" /\ stage' = "error"
       ELSE err' = err /\ stage' = "static"
  /\ UNCHANGED <<appVariant, ENVIRONMENT, publicDir, dbUp, req, res, sent, awsVars, eksVars, srvVars, evalVars>>

\* app.use(express.static('public')): GET and HEAD requests that name an
\* existing file are answered with the file; everything else falls through.
StaticMiddleware ==
  /\ stage = "static"
  /\ LET f == StaticFile(req.path) IN
       IF req.method \in {"GET", "HEAD"} /\ f \in PublicFiles /\ publicDir[f] # "absent"
         THEN /\ res' = Send(req, 200, MimeType(f), [file |-> f, content |-> publicDir[f]])
              /\ sent' = sent + 1
              /\ stage' = "done"
         ELSE /\ stage' = "log"
              /\ UNCHANGED <<res, sent>>
  /\ UNCHANGED <<appVariant, ENVIRONMENT, publicDir, dbUp, req, err, awsVars, eksVars, srvVars, evalVars>>

\* The request logging middleware: console.log, then next().
LoggingMiddleware ==
  /\ stage = "log"
  /\ stage' = "route"
  /\ UNCHANGED <<appVariant, ENVIRONMENT, publicDir, dbUp, req, err, res, sent, awsVars, eksVars, srvVars, evalVars>>

\* app.get('/'): the page is built and sent inside try; the catch answers
\* 500 with the text 'Internal Server Error'.
HomeHandler ==
  /\ stage = "route"
  /\ RouteMatches(req, "/")
  /\ IF req.thrown = "none"
       THEN res' = Send(req, 200, "text/html",
                        [html |-> "home", title |-> TitleString, environment |-> ENVIRONMENT])
       ELSE res' = Send(req, 500, "text/html", [text |-> "Internal Server Error"])
  /\ sent' = sent + 1
  /\ stage' = "done"
  /\ UNCHANGED <<appVariant, ENVIRONMENT, publicDir, dbUp, req, err, awsVars, eksVars, srvVars, evalVars>>

\* A handler without try/catch: an exception it raises is caught by the
\* Express router and passed to the error handler.
PlainHandler(path, body) ==
  /\ stage = "route"
  /\ RouteMatches(req, path)
  /\ IF req.thrown = "none"
       THEN /\ res' = Send(req, 200, "application/json", body)
            /\ sent' = sent + 1
            /\ stage' = "done"
            /\ err' = err
       ELSE /\ err' = req.thrown
            /\ stage' = "error"
            /\ UNCHANGED <<res, sent>>
  /\ UNCHANGED <<appVariant, ENVIRONMENT, publicDir, dbUp, req, awsVars, eksVars, srvVars, evalVars>>

\* app.get('/health')
HealthHandler ==
  PlainHandler("/health",
    [status |-> "healthy", timestamp |-> "now", environment |-> ENVIRONMENT, uptime |-> "uptime"])

\* app.get('/api/info')
ApiInfoHandler ==
  PlainHandler("/api/info",
    [app |-> "my-aws-webapp", version |-> "1.0.0", environment |-> ENVIRONMENT,
     timestamp |-> "now", nodeVersion |-> "version"])

\* app.get('/api/system')
ApiSystemHandler ==
  PlainHandler("/api/system",
    [hostname |-> "host", platform |-> "platform", architecture |-> "arch",
     totalMemory |-> "mem", freeMemory |-> "mem", cpus |-> "n", uptime |-> "uptime",
     loadavg |-> "load"])

\* A pool whose query never rejects.
PoolQueryError_NeverRejects == "none"

\* The rejection of pool.query('SELECT NOW()'), "none" when it resolves.
PoolQueryError == IF dbUp THEN "none" ELSE "ECONNREFUSED"

\* app.get('/db-check'): everything happens inside try; the catch answers
\* 500 with the error's own message.
DbCheckHandler ==
  /\ stage = "route"
  /\ RouteMatches(req, "/db-check")
  /\ LET e == IF PoolQueryError # "none" THEN PoolQueryError ELSE req.thrown IN
       IF e = "none"
         THEN res' = Send(req, 200, "application/json", [status |-> "connected", dbTime |-> "now"])
         ELSE res' = Send(req, 500, "application/json", [status |-> "error", message |-> e])
  /\ sent' = sent + 1
  /\ stage' = "done"
  /\ UNCHANGED <<appVariant, ENVIRONMENT, publicDir, dbUp, req, err, awsVars, eksVars, srvVars, evalVars>>

\* A 404 handler that ends its work without sending anything.
NotFoundHandler_NoResponse ==
  /\ stage = "route"
  /\ \A p \in GetRoutes : ~RouteMatches(req, p)
  /\ stage' = "done"
  /\ UNCHANGED <<appVariant, ENVIRONMENT, publicDir, dbUp, req, err, res, sent, awsVars, eksVars, srvVars, evalVars>>

\* The 404 handler: reached when no route answered.
NotFoundHandler ==
  /\ stage = "route"
  /\ \A p \in GetRoutes : ~RouteMatches(req, p)
  /\ res' = Send(req, 404, "application/json",
                 [error |-> "Endpoint not found", path |-> req.path,
                  availableEndpoints |-> availableEndpoints])
  /\ sent' = sent + 1
  /\ stage' = "done"
  /\ UNCHANGED <<appVariant, ENVIRONMENT, publicDir, dbUp, req, err, awsVars, eksVars, srvVars, evalVars>>

\* The error handler (four arguments): reached through next(err).
ErrorHandler ==
  /\ stage = "error"
  /\ res' = Send(req, 500, "application/json",
                 [error |-> "Internal server error", message |-> ErrorMessage(err)])
  /\ sent' = sent + 1
  /\ stage' = "done"
  /\ UNCHANGED <<appVariant, ENVIRONMENT, publicDir, dbUp, req, err, awsVars, eksVars, srvVars, evalVars>>

\* The response has been written and the connection is closed; the server
\* waits for the next request.
Finish ==
  /\ stage = "done"
  /\ stage' = "idle"
  /\ req' = NoReq
  /\ err' = "none"
  /\ res' = NoRes
  /\ sent' = 0
  /\ UNCHANGED <<appVariant, ENVIRONMENT, publicDir, dbUp, awsVars, eksVars, srvVars, evalVars>>

NextApp ==
  \/ DbToggle
  \/ Receive
  \/ JsonMiddleware
  \/ StaticMiddleware
  \/ LoggingMiddleware
  \/ HomeHandler
  \/ HealthHandler
  \/ ApiInfoHandler
  \/ ApiSystemHandler
  \/ DbCheckHandler
  \/ NotFoundHandler
  \/ ErrorHandler
  \/ Finish

vars == <<appVars, awsVars, eksVars, srvVars, evalVars>>

SpecApp == InitApp /\ [][NextApp]_vars

\* One step of serving the request in hand: the next middleware or handler
\* of the chain.  Express runs the chain to its end once a request has
\* entered it, and the query of /db-check settles (the pool resolves it or
\* rejects it when the connection fails).
ServeStep ==
  \/ JsonMiddleware
  \/ StaticMiddleware
  \/ LoggingMiddleware
  \/ HomeHandler
  \/ HealthHandler
  \/ ApiInfoHandler
  \/ ApiSystemHandler
  \/ DbCheckHandler
  \/ NotFoundHandler
  \/ ErrorHandler

SpecAppLive == InitApp /\ [][NextApp]_vars /\ WF_vars(ServeStep)

(***************************************************************************)
(*                        Claims about the app                             *)
(***************************************************************************)

\* The request has been answered.
Answered == stage = "done"

JsonField(body, k, v) == k \in DOMAIN body /\ body[k] = v

\* The body contains the app's title string: the page of app.get('/') does;
\* a static file does when its content does.
BodyContainsTitle(body) ==
  \/ JsonField(body, "title", TitleString)
  \/ JsonField(body, "content", "titled")

\* C1: every GET /health request is answered with HTTP 200 and a JSON body
\* whose status field is 'healthy', whatever the request's headers and body,
\* the contents of 'public' and the state of the database (the handler's own
\* code raising nothing).
C1_HealthAlwaysHealthy ==
  (Answered /\ req.method = "GET" /\ req.path = "/health" /\ req.thrown = "none")
    => /\ res.status = 200
       /\ res.ctype = "application/json"
       /\ JsonField(res.body, "status", "healthy")

\* C2: every GET / request is answered with HTTP 200, an html content type
\* and a body containing the title string, whatever the environment and the
\* files of 'public' (the handler's own code raising nothing).
C2_HomeAlwaysTitled ==
  (Answered /\ req.method = "GET" /\ req.path = "/" /\ req.thrown = "none")
    => /\ res.status = 200
       /\ res.ctype = "text/html"
       /\ BodyContainsTitle(res.body)

\* C3: every request whose method and path match no registered route
\* (non-GET requests to a registered path included) is answered with HTTP 404
\* and a JSON body with error, the requested path, and availableEndpoints
\* equal to the set of paths with a registered GET route.
C3_UnknownRouteIs404 ==
  (Answered /\ ~(req.method = "GET" /\ req.path \in GetRoutes))
    => /\ res.status = 404
       /\ res.ctype = "application/json"
       /\ DOMAIN res.body = {"error", "path", "availableEndpoints"}
       /\ res.body.path = req.path
       /\ res.body.availableEndpoints = GetRoutes

\* The exception met while a route handler served the request: the one its
\* code raised, or for /db-check the rejection of the query.
HandlerException ==
  IF req.path = "/db-check" /\ PoolQueryError # "none" THEN PoolQueryError ELSE req.thrown

\* C10: for every route handler, an exception raised while handling a request
\* results in HTTP 500 with a JSON body that does not carry the exception's
\* own message.
C10_HandlerExceptionGeneric500 ==
  (Answered /\ req.method = "GET" /\ req.path \in GetRoutes /\ req.body # "json_bad"
     /\ (StaticFile(req.path) \in PublicFiles => publicDir[StaticFile(req.path)] = "absent")
     /\ HandlerException # "none")
    => /\ res.status = 500
       /\ res.ctype = "application/json"
       /\ \A k \in DOMAIN res.body : res.body[k] # HandlerException

\* The HTTP surface: the five paths and, for each, the content type and the
\* keys of the body its handler sends on success.
SurfacePaths == {"/", "/health", "/api/info", "/api/system", "/db-check"}

SurfaceShape(path) ==
  CASE path = "/" ->
         [ctype |-> "text/html", keys |-> {"html", "title", "environment"}]
    [] path = "/health" ->
         [ctype |-> "application/json",
          keys |-> {"status", "timestamp", "environment", "uptime"}]
    [] path = "/api/info" ->
         [ctype |-> "application/json",
          keys |-> {"app", "version", "environment", "timestamp", "nodeVersion"}]
    [] path = "/api/system" ->
         [ctype |-> "application/json",
          keys |-> {"hostname", "platform", "architecture", "totalMemory",
                    "freeMemory", "cpus", "uptime", "loadavg"}]
    [] OTHER ->
         [ctype |-> "application/json", keys |-> {"status", "dbTime"}]

\* The request reaches the routes and its handler's own code raises nothing:
\* the body is not malformed JSON and no file of 'public' has its path.
PlainGet ==
  /\ Answered
  /\ req.method = "GET"
  /\ req.body # "json_bad"
  /\ req.thrown = "none"
  /\ StaticFile(req.path) \in PublicFiles => publicDir[StaticFile(req.path)] = "absent"

\* C11: the app answers each of GET /, /health, /api/info, /api/system and
\* /db-check with a response that is not 404 and has the fixed shape of its
\* path: the page for /, a JSON object with a fixed set of keys for the others.
C11_SurfaceFixedShape ==
  (PlainGet /\ req.path \in SurfacePaths)
    => /\ res.status # 404
       /\ res.ctype = SurfaceShape(req.path).ctype
       /\ DOMAIN res.body = SurfaceShape(req.path).keys

\* A GET /db-check of the database variant whose handler raises nothing
\* besides the rejection of its query.
DbCheckRequest ==
  /\ appVariant = "db"
  /\ req.method = "GET"
  /\ req.path = "/db-check"
  /\ req.thrown = "none"

\* C23: in the database variant, GET /db-check answers 200 with status
\* 'connected' exactly when its query succeeds and 500 with status 'error'
\* when the query fails: the handler sends one response, chosen by the
\* outcome of the query alone, and no 200 is sent for this route while the
\* database is failing.
C23_DbCheckFollowsQuery ==
  /\ [][(DbCheckHandler /\ DbCheckRequest)
          => /\ sent' = 1
             /\ res'.ctype = "application/json"
             /\ IF dbUp
                  THEN res'.status = 200 /\ JsonField(res'.body, "status", "connected")
                  ELSE res'.status = 500 /\ JsonField(res'.body, "status", "error")]_vars
  /\ []((Answered /\ DbCheckRequest /\ res.status = 200)
          => dbUp /\ JsonField(res.body, "status", "connected"))
  /\ []((Answered /\ DbCheckRequest /\ ~dbUp) => res.status = 500)

\* GET /db-check was answered by its handler while the database was down.
C23_Witness ==
  /\ Answered
  /\ DbCheckRequest
  /\ req.body = "none"
  /\ ~dbUp
  /\ res.status = 500
  /\ JsonField(res.body, "status", "error")

\* The error behind the response: the one passed to next(err), or the
\* exception met by the route handler.
UnderlyingError == IF err # "none" THEN err ELSE HandlerException

\* C26: when ENVIRONMENT is 'production', no 500 response carries the
\* message of the underlying error.
C26_ProductionHidesErrorMessage ==
  (Answered /\ ENVIRONMENT = "production" /\ res.status = 500 /\ req.method = "GET")
    => ~JsonField(res.body, "message", UnderlyingError)

\* A request is in the middleware chain and has no response yet.
InFlight == stage \in {"json", "static", "log", "route", "error"}

MaxRuns == 2
\* Calls of one run that may fail for an outside reason.
MaxFaults == 1
\* IAM allows two access keys per user.
AccessKeyLimit == 2

\* What the terminal shows when a command's stderr is not redirected.
Stderr(cmd) == {<<"stderr", cmd>>}
Echo(text) == {<<"echo", text>>}

\* ---- exit status of the existence queries, as the AWS CLI gives it ----
\* describe-repositories, get-role and get-user name one resource: the CLI
\* fails (RepositoryNotFoundException, NoSuchEntity) when it is absent.
DescribeRepositoriesRc(fault) == IF fault \/ ~aws.repo THEN 1 ELSE 0
GetRoleRc(fault) == IF fault \/ ~aws.role THEN 1 ELSE 0
GetUserRc(fault) == IF fault \/ ~aws.user THEN 1 ELSE 0
\* describe-clusters reports an absent cluster in its "failures" list and
\* describe-log-groups answers an empty list: both exit 0.
DescribeClustersRc(fault) == IF fault THEN 1 ELSE 0
DescribeLogGroupsRc(fault) == IF fault THEN 1 ELSE 0
\* describe-services fails when the cluster is absent
\* (ClusterNotFoundException) and reports an absent service in "failures".
DescribeServicesRc(fault) == IF fault \/ ~aws.cluster THEN 1 ELSE 0
\* --query ... --output text prints None for an empty list.
DescribeVpcsOut == IF aws.defaultVpc THEN "vpc-1" ELSE "None"
DescribeSecurityGroupsOut(fault) ==
  IF fault THEN "" ELSE IF aws.sg THEN "sg-1" ELSE "None"

\* One external command and what the script does with its result; the call
\* is recorded with the shell variables its command line is expanded with.
Cmd(pc, cmd, fault, rc, newAws, newSh, absent, qerr, out, nextPc, exitCode) ==
  /\ awsPc = pc
  /\ fault => awsFaults < MaxFaults
  /\ awsFaults' = IF fault THEN awsFaults + 1 ELSE awsFaults
  /\ awsCalls' = Append(awsCalls, [cmd |-> cmd, rc |-> rc, sh |-> sh,
                                   region |-> TargetRegion(cmd, awsDefaultRegion)])
  /\ aws' = newAws
  /\ sh' = newSh
  /\ awsAbsent' = awsAbsent \cup absent
  /\ awsQErr' = awsQErr \cup qerr
  /\ awsOut' = awsOut \cup out
  /\ awsPc' = nextPc
  /\ awsExit' = exitCode
  /\ UNCHANGED <<jqInstalled, awsRun, awsPrevExit, awsEnv, awsDefaultRegion, awsAtStart, appVars, eksVars, srvVars, evalVars>>

\* An existence query used as the condition of an if, with
\* '>/dev/null 2>&1': status 0 takes the "already exists" branch.
Query(pc, cmd, fault, rc, resource, exists, existsText, skipPc, createPc) ==
  Cmd(pc, cmd, fault, rc, aws, sh,
      IF exists THEN {} ELSE {resource},
      IF fault THEN {resource} ELSE {},
      IF rc = 0 THEN Echo(existsText) ELSE {},
      IF rc = 0 THEN skipPc ELSE createPc, -1)

\* SetE without 'set -e': the script goes on after a failed command.
SetE_NoErrexit(pc, cmd, fault, ok, newAws, newSh, okOut, nextPc) ==
  Cmd(pc, cmd, fault, IF ok THEN 0 ELSE 1,
      IF ok THEN newAws ELSE aws,
      IF ok THEN newSh ELSE sh,
      {}, {},
      IF ok THEN okOut ELSE Stderr(cmd),
      nextPc, -1)

\* set -e: a command that is not a condition and exits non-zero ends the
\* script with that status; its stderr is on the terminal.
SetE(pc, cmd, fault, ok, newAws, newSh, okOut, nextPc) ==
  Cmd(pc, cmd, fault, IF ok THEN 0 ELSE 1,
      IF ok THEN newAws ELSE aws,
      IF ok THEN newSh ELSE sh,
      {}, {},
      IF ok THEN okOut ELSE Stderr(cmd),
      IF ok THEN nextPc ELSE "exited",
      IF ok THEN -1 ELSE 1)

InitAws ==
  /\ AppAtRest
  /\ EksAtRest
  /\ ServerAtRest
  /\ EvalAtRest
  /\ \E c, l, v \in BOOLEAN :
       aws = [EmptyAccount EXCEPT !.cluster = c, !.logGroup = l, !.defaultVpc = v]
  /\ jqInstalled \in BOOLEAN
  /\ awsPc = "idle"
  /\ awsRun = 0
  /\ awsCalls = <<>>
  /\ awsExit = -1
  /\ awsPrevExit = -1
  /\ awsFaults = 0
  /\ awsAbsent = {}
  /\ awsQErr = {}
  /\ awsOut = {}
  /\ sh = NoSh
  /\ awsEnv \in {"", "webapp-staging-cluster"}
  /\ awsDefaultRegion \in Regions
  /\ awsAtStart = aws

\* The operator starts the script (again): lines 1-32, the configuration
\* variables and the banner.
AwsStart ==
  /\ awsPc \in {"idle", "exited"}
  /\ awsRun < MaxRuns
  /\ awsRun' = awsRun + 1
  /\ awsPrevExit' = awsExit
  /\ awsExit' = -1
  /\ awsPc' = "sts"
  /\ awsCalls' = <<>>
  /\ awsFaults' = 0
  /\ awsAbsent' = {}
  /\ awsQErr' = {}
  /\ awsOut' = {}
  /\ sh' = ConfigVars(awsEnv)
  /\ awsAtStart' = aws
  /\ UNCHANGED <<aws, jqInstalled, awsEnv, awsDefaultRegion, appVars, eksVars, srvVars, evalVars>>

\* if ! aws sts get-caller-identity >/dev/null 2>&1; then ... exit 1
StsCheck ==
  \E fault \in BOOLEAN :
    Cmd("sts", "sts get-caller-identity", fault, IF fault THEN 1 ELSE 0, aws, sh, {}, {},
        IF fault THEN Echo("AWS CLI not configured") ELSE Echo("AWS CLI configured"),
        IF fault THEN "exited" ELSE "jq",
        IF fault THEN 1 ELSE -1)

\* if ! command -v jq: install it with brew or apt-get, or exit 1 on another
\* OS.  brew install failing ends the script (set -e); apt-get update failing
\* inside the && list does not, and the script goes on without jq.
JqCheck ==
  /\ awsPc = "jq"
  /\ \E outcome \in {"installed", "install_failed", "update_failed", "other_os"} :
       /\ jqInstalled' = (jqInstalled \/ outcome = "installed")
       /\ IF jqInstalled \/ outcome \in {"installed", "update_failed"}
            THEN awsPc' = "ecr_describe" /\ awsExit' = awsExit /\ awsOut' = awsOut
            ELSE /\ awsPc' = "exited"
                 /\ awsExit' = 1
                 /\ awsOut' = awsOut \cup
                      (IF outcome = "other_os" THEN Echo("jq is required") ELSE Stderr("install jq"))
  /\ UNCHANGED <<aws, awsRun, awsCalls, awsPrevExit, awsFaults, awsAbsent, awsQErr, sh,
                 awsEnv, awsDefaultRegion, awsAtStart, appVars, eksVars, srvVars, evalVars>>

\* 1. if aws ecr describe-repositories ... >/dev/null 2>&1
EcrDescribe ==
  \E fault \in BOOLEAN :
    Query("ecr_describe", "ecr describe-repositories", fault, DescribeRepositoriesRc(fault),
          "repo", aws.repo, "ECR repository already exists", "ecr_uri", "ecr_create")

\* aws ecr create-repository
EcrCreate ==
  \E fault \in BOOLEAN :
    SetE("ecr_create", "ecr create-repository", fault, ~fault /\ ~aws.repo,
         [aws EXCEPT !.repo = TRUE], sh, Echo("ECR repository created"), "ecr_uri")

\* ECR_URI=$(aws ecr describe-repositories ... --query ... --output text)
EcrUri ==
  \E fault \in BOOLEAN :
    SetE("ecr_uri", "ecr describe-repositories", fault, ~fault /\ aws.repo,
         aws, [sh EXCEPT !.ECR_URI = "registry/my-webapp"], Echo("ECR URI"), "role_get")

\* RoleGet resuming the step: an existing role still gets its policy.
RoleGet_Resumes ==
  \E fault \in BOOLEAN :
    Query("role_get", "iam get-role", fault, GetRoleRc(fault),
          "role", aws.role, "ECS execution role already exists", "role_attach", "role_create")

\* 2. if aws iam get-role ... >/dev/null 2>&1
RoleGet ==
  \E fault \in BOOLEAN :
    Query("role_get", "iam get-role", fault, GetRoleRc(fault),
          "role", aws.role, "ECS execution role already exists", "role_arn", "role_create")

\* aws iam create-role
RoleCreate ==
  \E fault \in BOOLEAN :
    SetE("role_create", "iam create-role", fault, ~fault /\ ~aws.role,
         [aws EXCEPT !.role = TRUE], sh, {}, "role_attach")

\* aws iam attach-role-policy
RoleAttach ==
  \E fault \in BOOLEAN :
    SetE("role_attach", "iam attach-role-policy", fault, ~fault /\ aws.role,
         [aws EXCEPT !.rolePolicy = TRUE], sh, Echo("ECS execution role created"), "role_arn")

\* RoleArn without the assignment of EXECUTION_ROLE_ARN.
RoleArn_NotAssigned ==
  \E fault \in BOOLEAN :
    SetE("role_arn", "iam get-role", fault, ~fault /\ aws.role, aws, sh, {}, "cluster_describe")

\* EXECUTION_ROLE_ARN=$(aws iam get-role ... --query 'Role.Arn' --output text)
RoleArn ==
  \E fault \in BOOLEAN :
    SetE("role_arn", "iam get-role", fault, ~fault /\ aws.role,
         aws, [sh EXCEPT !.EXECUTION_ROLE_ARN = "arn:role"], {}, "cluster_describe")

\* 3. if aws ecs describe-clusters ... >/dev/null 2>&1
ClusterDescribe ==
  \E fault \in BOOLEAN :
    Query("cluster_describe", "ecs describe-clusters", fault, DescribeClustersRc(fault),
          "cluster", aws.cluster, "ECS cluster already exists", "vpc_describe", "cluster_create")

\* aws ecs create-cluster (the service returns an existing cluster as is)
ClusterCreate ==
  \E fault \in BOOLEAN :
    SetE("cluster_create", "ecs create-cluster", fault, ~fault,
         [aws EXCEPT !.cluster = TRUE], sh, Echo("ECS cluster created"), "vpc_describe")

\* The VPC step without its 'exit 1': the message is printed and the script
\* goes on with DEFAULT_VPC set to None.
VpcDescribe_NoExit ==
  \E fault \in BOOLEAN :
    IF ~fault /\ DescribeVpcsOut = "None"
      THEN Cmd("vpc_describe", "ec2 describe-vpcs", fault, 0, aws,
               [sh EXCEPT !.DEFAULT_VPC = "None"], {}, {},
               Echo("No default VPC found"), "subnets_describe", -1)
      ELSE SetE("vpc_describe", "ec2 describe-vpcs", fault, ~fault,
                aws, [sh EXCEPT !.DEFAULT_VPC = DescribeVpcsOut], {}, "subnets_describe")

\* 4. DEFAULT_VPC=$(aws ec2 describe-vpcs ...); if [ "$DEFAULT_VPC" = "None" ]
\* then ... exit 1
VpcDescribe ==
  \E fault \in BOOLEAN :
    IF ~fault /\ DescribeVpcsOut = "None"
      THEN Cmd("vpc_describe", "ec2 describe-vpcs", fault, 0, aws,
               [sh EXCEPT !.DEFAULT_VPC = "None"], {}, {},
               Echo("No default VPC found"), "exited", 1)
      ELSE SetE("vpc_describe", "ec2 describe-vpcs", fault, ~fault,
                aws, [sh EXCEPT !.DEFAULT_VPC = DescribeVpcsOut], {}, "subnets_describe")

\* SUBNETS=$(aws ec2 describe-subnets ... | tr '\t' ','): the status of the
\* pipeline is that of tr, so a failure of aws leaves SUBNETS empty and the
\* script goes on.
SubnetsDescribe ==
  \E fault \in BOOLEAN :
    Cmd("subnets_describe", "ec2 describe-subnets", fault, IF fault THEN 1 ELSE 0, aws,
        [sh EXCEPT !.SUBNETS = IF fault THEN "" ELSE "subnet-a,subnet-b"], {}, {},
        (IF fault THEN Stderr("ec2 describe-subnets") ELSE {}) \cup Echo("VPC and subnets"),
        "sg_describe", -1)

\* 5. SECURITY_GROUP_ID=$(aws ec2 describe-security-groups ... 2>/dev/null || true)
\* if [ -n "$SECURITY_GROUP_ID" ] && [ "$SECURITY_GROUP_ID" != "None" ]
SgDescribe ==
  \E fault \in BOOLEAN :
    LET id == DescribeSecurityGroupsOut(fault)
        exists == id # "" /\ id # "None"
    IN Cmd("sg_describe", "ec2 describe-security-groups", fault, IF fault THEN 1 ELSE 0, aws,
           [sh EXCEPT !.SECURITY_GROUP_ID = id],
           IF aws.sg THEN {} ELSE {"sg"},
           IF fault THEN {"sg"} ELSE {},
           IF exists THEN Echo("Security group already exists") ELSE {},
           IF exists THEN "log_describe" ELSE "sg_create", -1)

\* SECURITY_GROUP_ID=$(aws ec2 create-security-group ...)
SgCreate ==
  \E fault \in BOOLEAN :
    SetE("sg_create", "ec2 create-security-group", fault, ~fault /\ ~aws.sg,
         [aws EXCEPT !.sg = TRUE], [sh EXCEPT !.SECURITY_GROUP_ID = "sg-1"], {}, "sg_authorize")

\* aws ec2 authorize-security-group-ingress
SgAuthorize ==
  \E fault \in BOOLEAN :
    SetE("sg_authorize", "ec2 authorize-security-group-ingress", fault,
         ~fault /\ aws.sg /\ ~aws.sgIngress,
         [aws EXCEPT !.sgIngress = TRUE], sh, Echo("Security group created"), "log_describe")

\* 6. if aws logs describe-log-groups --log-group-name-prefix ... >/dev/null 2>&1
LogDescribe ==
  \E fault \in BOOLEAN :
    Query("log_describe", "logs describe-log-groups", fault, DescribeLogGroupsRc(fault),
          "logGroup", aws.logGroup, "CloudWatch log group already exists",
          "taskdef_register", "log_create")

\* aws logs create-log-group
LogCreate ==
  \E fault \in BOOLEAN :
    SetE("log_create", "logs create-log-group", fault, ~fault /\ ~aws.logGroup,
         [aws EXCEPT !.logGroup = TRUE], sh, Echo("CloudWatch log group created"),
         "taskdef_register")

\* 7. aws ecs register-task-definition ... >/dev/null (no existence check:
\* every call registers a new revision of the family)
TaskDefRegister ==
  \E fault \in BOOLEAN :
    SetE("taskdef_register", "ecs register-task-definition", fault, ~fault,
         [aws EXCEPT !.taskDefs = @ + 1], sh, Echo("Initial task definition created"),
         "service_describe")

\* 8. if aws ecs describe-services ... >/dev/null 2>&1
ServiceDescribe ==
  \E fault \in BOOLEAN :
    Query("service_describe", "ecs describe-services", fault, DescribeServicesRc(fault),
          "service", aws.service, "ECS service already exists", "user_get", "service_create")

\* aws ecs create-service ... >/dev/null: needs the cluster, a registered
\* task definition and a network configuration with subnets and a
\* security group of the region the service is created in; those were
\* looked up in the region of the CLI configuration.
ServiceCreate ==
  \E fault \in BOOLEAN :
    SetE("service_create", "ecs create-service", fault,
         ~fault /\ aws.cluster /\ aws.taskDefs > 0 /\ sh.SUBNETS # ""
           /\ awsDefaultRegion = TargetRegion("ecs create-service", awsDefaultRegion),
         [aws EXCEPT !.service = TRUE], sh, Echo("ECS service created"), "user_get")

\* 9. if aws iam get-user ... >/dev/null 2>&1
UserGet ==
  \E fault \in BOOLEAN :
    Query("user_get", "iam get-user", fault, GetUserRc(fault),
          "user", aws.user, "GitHub Actions user already exists", "key_create", "user_create")

\* aws iam create-user
UserCreate ==
  \E fault \in BOOLEAN :
    SetE("user_create", "iam create-user", fault, ~fault /\ ~aws.user,
         [aws EXCEPT !.user = TRUE], sh, {}, "user_attach_ecs")

\* aws iam attach-user-policy ... AmazonECS_FullAccess
UserAttachEcs ==
  \E fault \in BOOLEAN :
    SetE("user_attach_ecs", "iam attach-user-policy", fault, ~fault /\ aws.user,
         [aws EXCEPT !.userPolicies = @ \cup {"AmazonECS_FullAccess"}], sh, {},
         "user_attach_ecr")

\* aws iam attach-user-policy ... AmazonEC2ContainerRegistryFullAccess
UserAttachEcr ==
  \E fault \in BOOLEAN :
    SetE("user_attach_ecr", "iam attach-user-policy", fault, ~fault /\ aws.user,
         [aws EXCEPT !.userPolicies = @ \cup {"AmazonEC2ContainerRegistryFullAccess"}], sh,
         Echo("GitHub Actions user created"), "key_create")

\* ACCESS_KEY_OUTPUT=$(aws iam create-access-key ... 2>/dev/null || echo "failed")
\* A failure only prints a warning.  On success the keys are read with
\* jq -r inside $( ... ): without jq the assignment fails and set -e ends
\* the script.
KeyCreate ==
  \E fault \in BOOLEAN :
    LET ok == ~fault /\ aws.user /\ aws.accessKeys < AccessKeyLimit
        parsed == ~ok \/ jqInstalled
    IN Cmd("key_create", "iam create-access-key", fault, IF ok THEN 0 ELSE 1,
           IF ok THEN [aws EXCEPT !.accessKeys = @ + 1] ELSE aws,
           [sh EXCEPT !.ACCESS_KEY_OUTPUT = IF ok THEN "AccessKey" ELSE "failed"],
           {}, {},
           IF ok THEN (IF jqInstalled THEN {} ELSE Stderr("jq"))
                 ELSE Echo("Could not create new access keys"),
           IF parsed THEN "complete" ELSE "exited",
           IF parsed THEN -1 ELSE 1)

\* echo SETUP COMPLETE and the instructions; the script ends with status 0.
Complete ==
  /\ awsPc = "complete"
  /\ awsOut' = awsOut \cup Echo("SETUP COMPLETE")
  /\ awsPc' = "exited"
  /\ awsExit' = 0
  /\ UNCHANGED <<aws, jqInstalled, awsRun, awsCalls, awsPrevExit, awsFaults, awsAbsent,
                 awsQErr, sh, awsEnv, awsDefaultRegion, awsAtStart, appVars, eksVars, srvVars, evalVars>>

NextAws ==
  \/ AwsStart
  \/ StsCheck
  \/ JqCheck
  \/ EcrDescribe
  \/ EcrCreate
  \/ EcrUri
  \/ RoleGet
  \/ RoleCreate
  \/ RoleAttach
  \/ RoleArn
  \/ ClusterDescribe
  \/ ClusterCreate
  \/ VpcDescribe
  \/ SubnetsDescribe
  \/ SgDescribe
  \/ SgCreate
  \/ SgAuthorize
  \/ LogDescribe
  \/ LogCreate
  \/ TaskDefRegister
  \/ ServiceDescribe
  \/ ServiceCreate
  \/ UserGet
  \/ UserCreate
  \/ UserAttachEcs
  \/ UserAttachEcr
  \/ KeyCreate
  \/ Complete

SpecAws == InitAws /\ [][NextAws]_vars

(***************************************************************************)
(*                      Claims about aws-setup.sh                          *)
(***************************************************************************)

\* The current run has invoked cmd.
Invoked(cmd) == \E i \in DOMAIN awsCalls : awsCalls[i].cmd = cmd

\* The commands that create or change a resource.
CreatingCommands ==
  {"ecr create-repository", "iam create-role", "iam attach-role-policy",
   "ecs create-cluster", "ec2 create-security-group",
   "ec2 authorize-security-group-ingress", "logs create-log-group",
   "ecs register-task-definition", "ecs create-service", "iam create-user",
   "iam attach-user-policy", "iam create-access-key"}

\* The existence-guarded steps: the resource, its query and its create
\* command, and where the script is right after the query, on the
\* "already exists" branch and on the create branch.
GuardedSteps ==
  { [res |-> "repo", query |-> "ecr describe-repositories",
     create |-> "ecr create-repository", skipPc |-> "ecr_uri", createPc |-> "ecr_create"],
    [res |-> "role", query |-> "iam get-role",
     create |-> "iam create-role", skipPc |-> "role_arn", createPc |-> "role_create"],
    [res |-> "cluster", query |-> "ecs describe-clusters",
     create |-> "ecs create-cluster", skipPc |-> "vpc_describe", createPc |-> "cluster_create"],
    [res |-> "sg", query |-> "ec2 describe-security-groups",
     create |-> "ec2 create-security-group", skipPc |-> "log_describe", createPc |-> "sg_create"],
    [res |-> "logGroup", query |-> "logs describe-log-groups",
     create |-> "logs create-log-group", skipPc |-> "taskdef_register", createPc |-> "log_create"],
    [res |-> "service", query |-> "ecs describe-services",
     create |-> "ecs create-service", skipPc |-> "user_get", createPc |-> "service_create"],
    [res |-> "user", query |-> "iam get-user",
     create |-> "iam create-user", skipPc |-> "key_create", createPc |-> "user_create"] }

\* Every resource the script provisions exists.
AllResourcesPresent ==
  /\ aws.repo /\ aws.role /\ aws.rolePolicy /\ aws.cluster /\ aws.sg /\ aws.sgIngress
  /\ aws.logGroup /\ aws.taskDefs > 0 /\ aws.service /\ aws.user

\* C4: a second run, after a run that exited 0, with all resources present
\* and nothing changed or failing in between, invokes no resource-creating
\* command and exits 0.
C4_RerunCreatesNothing ==
  (awsRun >= 2 /\ awsPrevExit = 0 /\ awsFaults = 0 /\ jqInstalled /\ AllResourcesPresent)
    => /\ \A i \in DOMAIN awsCalls : awsCalls[i].cmd \notin CreatingCommands
       /\ awsPc = "exited" => awsExit = 0

\* C6: in every existence-guarded step, a resource that does not exist when
\* the step's query runs has its create command invoked in that run: the
\* script never takes the "already exists" branch for it.
C6_AbsentResourceIsCreated ==
  \A g \in GuardedSteps :
    (g.res \in awsAbsent /\ awsPc = g.skipPc) => Invoked(g.create)

\* C7: when an existence query fails for a reason other than the resource
\* being absent, the run aborts with a non-zero status, the resource's create
\* command is not invoked, and the tool's error text is on the terminal.
C7_QueryFailureAborts ==
  \A g \in GuardedSteps :
    g.res \in awsQErr
      => /\ awsPc = "exited"
         /\ awsExit > 0
         /\ ~Invoked(g.create)
         /\ Stderr(g.query) \subseteq awsOut

\* The commands C8 lists (create-access-key, whose failure is tolerated, is
\* not among them).
C8Commands == CreatingCommands \ {"iam create-access-key"}

\* C8: if a resource-creating command exits non-zero, the script exits
\* non-zero at that point: that command is the last aws command of the run
\* and SETUP COMPLETE is never printed.
C8_CreateFailureStopsScript ==
  \A i \in DOMAIN awsCalls :
    (awsCalls[i].cmd \in C8Commands /\ awsCalls[i].rc # 0)
      => /\ i = Len(awsCalls)
         /\ awsPc = "exited"
         /\ awsExit > 0
         /\ Echo("SETUP COMPLETE") \cap awsOut = {}

\* A follow-up command fails after its step's create command succeeded.
C8_Witness ==
  /\ Len(awsCalls) >= 2
  /\ awsCalls[Len(awsCalls)].cmd \in {"iam attach-role-policy", "ec2 authorize-security-group-ingress"}
  /\ awsCalls[Len(awsCalls)].rc # 0
  /\ awsCalls[Len(awsCalls) - 1].rc = 0
  /\ awsPc = "exited"

\* None of the resources the script provisions exists in account a.
NoResources(a) ==
  /\ ~a.repo /\ ~a.role /\ ~a.rolePolicy /\ ~a.cluster /\ ~a.sg /\ ~a.sgIngress
  /\ ~a.logGroup /\ a.taskDefs = 0 /\ ~a.service /\ ~a.user

\* The current run has exited with status 0.
ExitedZero == awsPc = "exited" /\ awsExit = 0

\* C12: a run that starts in an account with none of the script's resources
\* and exits 0 leaves the ECR repository, the ECS cluster, the ECS service,
\* the execution role, the security group, the log group and a registered
\* task definition in existence.
C12_FreshRunProvisionsAll ==
  (NoResources(awsAtStart) /\ ExitedZero)
    => /\ aws.repo /\ aws.cluster /\ aws.service /\ aws.role /\ aws.sg
       /\ aws.logGroup /\ aws.taskDefs > 0

\* The commands that create the resources named after $CLUSTER_NAME: the
\* cluster, the execution role (ecsTaskExecutionRole-$CLUSTER_NAME) and the
\* service (--cluster $CLUSTER_NAME).
NamedAfterCluster == {"ecs create-cluster", "iam create-role", "ecs create-service"}

\* C13: when the operator has set CLUSTER_NAME to another name before
\* running the script, the cluster, the execution role and the service are
\* created under that name.
C13_ClusterNameFromOperator ==
  awsEnv # ""
    => \A i \in DOMAIN awsCalls :
         awsCalls[i].cmd \in NamedAfterCluster => awsCalls[i].sh.CLUSTER_NAME = awsEnv

\* C14: resuming after a partial failure is not safe.  A run that starts
\* with the execution role, the security group or the IAM user in existence
\* leaves the resource's follow-up configuration (the attached execution
\* policy, the ingress rule, the user's policies) exactly as it found it,
\* so what an aborted run left undone stays undone after a re-run.
C14_RerunLeavesStepUnfinished ==
  /\ awsAtStart.role => aws.rolePolicy = awsAtStart.rolePolicy
  /\ awsAtStart.sg => aws.sgIngress = awsAtStart.sgIngress
  /\ awsAtStart.user => aws.userPolicies = awsAtStart.userPolicies

\* A run was aborted between create-role and attach-role-policy, and the
\* re-run has exited 0 with the role still without its policy.
C14_Witness ==
  /\ awsRun = 2
  /\ awsPrevExit > 0
  /\ ExitedZero
  /\ awsAtStart.role
  /\ aws.role
  /\ ~aws.rolePolicy

\* Call i of the current run is preceded by a call of cmd with status rc.
Before(i, cmd, rc) ==
  \E j \in 1..(i - 1) : awsCalls[j].cmd = cmd /\ awsCalls[j].rc = rc

\* C20: aws ecs create-service is invoked only after, in the same run, the
\* execution role ARN has been read, the cluster step and the security
\* group step have completed and register-task-definition has succeeded; its
\* command line carries the security group id of that run's security group
\* step and the subnet list that run's describe-subnets gave (empty when
\* that command failed).
C20_ServiceCreatedLast ==
  \A i \in DOMAIN awsCalls :
    awsCalls[i].cmd = "ecs create-service"
      => /\ Before(i, "iam get-role", 0)
         /\ awsCalls[i].sh.EXECUTION_ROLE_ARN = "arn:role"
         /\ \E j \in 1..(i - 1) : awsCalls[j].cmd = "ecs describe-clusters"
         /\ \E j \in 1..(i - 1) :
              /\ awsCalls[j].cmd \in {"ec2 describe-security-groups", "ec2 create-security-group"}
              /\ awsCalls[j + 1].sh.SECURITY_GROUP_ID = "sg-1"
         /\ aws.sg
         /\ awsCalls[i].sh.SECURITY_GROUP_ID = "sg-1"
         /\ Before(i, "ecs register-task-definition", 0)
         /\ \/ Before(i, "ec2 describe-subnets", 0) /\ awsCalls[i].sh.SUBNETS = "subnet-a,subnet-b"
            \/ Before(i, "ec2 describe-subnets", 1) /\ awsCalls[i].sh.SUBNETS = ""

\* The service is created by a second run, after a first run that failed.
C20_Witness ==
  /\ awsRun = 2
  /\ awsPrevExit > 0
  /\ awsCalls # <<>>
  /\ awsCalls[Len(awsCalls)].cmd = "ecs create-service"
  /\ awsCalls[Len(awsCalls)].rc = 0
  /\ aws.service

\* The run has ended on the 'No default VPC found' branch.
NoDefaultVpcExit ==
  /\ awsPc = "exited"
  /\ Echo("No default VPC found") \subseteq awsOut

\* The commands of the steps after the VPC lookup.
LaterStepCommands ==
  {"ec2 describe-subnets", "ec2 describe-security-groups", "ec2 create-security-group",
   "ec2 authorize-security-group-ingress", "logs describe-log-groups",
   "logs create-log-group", "ecs register-task-definition", "ecs describe-services",
   "ecs create-service", "iam get-user", "iam create-user", "iam attach-user-policy",
   "iam create-access-key"}

\* C22: when the account has no default VPC the script exits with status 1
\* right after the VPC query: no command of a later step is invoked, the
\* repository and the role exist, nothing of the earlier steps that existed
\* at the start of the run is gone, and the resources of the later steps are
\* as they were when the run started.
C22_NoDefaultVpcStops ==
  NoDefaultVpcExit =>
    /\ awsExit = 1
    /\ awsCalls[Len(awsCalls)].cmd = "ec2 describe-vpcs"
    /\ \A i \in DOMAIN awsCalls : awsCalls[i].cmd \notin LaterStepCommands
    /\ aws.repo /\ aws.role
    /\ \A f \in {"sg", "sgIngress", "logGroup", "taskDefs", "service", "user"} :
         aws[f] = awsAtStart[f]
    /\ \A f \in {"repo", "role", "cluster"} : awsAtStart[f] => aws[f]

\* A run in an account without default VPC that created the repository,
\* the role and the cluster before it stopped.
C22_Witness ==
  /\ NoDefaultVpcExit
  /\ Invoked("ecr create-repository")
  /\ Invoked("iam create-role")
  /\ Invoked("ecs create-cluster")

\* The commands of the regional services (ecr, ecs, ec2, logs).
RegionScopedCommands ==
  {"ecr describe-repositories", "ecr create-repository", "ecs describe-clusters",
   "ecs create-cluster", "ec2 describe-vpcs", "ec2 describe-subnets",
   "ec2 describe-security-groups", "ec2 create-security-group",
   "ec2 authorize-security-group-ingress", "logs describe-log-groups",
   "logs create-log-group", "ecs register-task-definition", "ecs describe-services",
   "ecs create-service"}

\* C25: every command of a regional service acts on the region configured
\* in AWS_REGION, whatever the region of the operator's CLI configuration.
C25_CommandsTargetAwsRegion ==
  \A i \in DOMAIN awsCalls :
    awsCalls[i].cmd \in RegionScopedCommands => awsCalls[i].region = AWS_REGION

(***************************************************************************)
(*                             setup-eks.sh                                *)
(*                                                                         *)
(* One action per step of the script.  Every external command may fail for *)
(* a reason outside the script: the input fault.                           *)
(***************************************************************************)

\* Length of the command lines that are tried.
MaxArgs == 2

\* The words the command lines of SpecEks are made of: options of the script
\* (--region and --node-type are parsed like --cluster-name and are left to
\* ParseArgs) and one other word, which is a value after an option that takes
\* one and an unknown argument elsewhere.
ArgTokens ==
  {"--cluster-name", "--kms", "--profile", "--no-alb", "--no-autoscaler",
   "--no-cloudwatch", "--help", "prod"}

ArgLists == UNION { [1..n -> ArgTokens] : n \in 0..MaxArgs }

Rest(args, n) == SubSeq(args, n + 1, Len(args))

\* The while/case loop over "$@".  Under set -u an option that takes a value
\* and is the last word stops the script ("$2: unbound variable").
RECURSIVE ParseArgs(_, _)
ParseArgs(args, o) ==
  IF args = <<>> THEN o
  ELSE LET a == Head(args)
           takesValue == a \in {"--cluster-name", "--region", "--node-type", "--profile"}
       IN
       IF takesValue /\ Len(args) < 2 THEN [o EXCEPT !.status = "unbound"]
       ELSE CASE a = "--cluster-name" -> ParseArgs(Rest(args, 2), [o EXCEPT !.CLUSTER_NAME = args[2]])
              [] a = "--region" -> ParseArgs(Rest(args, 2), [o EXCEPT !.REGION = args[2]])
              [] a = "--node-type" -> ParseArgs(Rest(args, 2), [o EXCEPT !.NODE_TYPE = args[2]])
              [] a = "--kms" -> ParseArgs(Rest(args, 1), [o EXCEPT !.KMS_CREATE = TRUE])
              [] a = "--profile" -> ParseArgs(Rest(args, 2), [o EXCEPT !.PROFILE = <<"--profile", args[2]>>])
              [] a = "--no-alb" -> ParseArgs(Rest(args, 1), [o EXCEPT !.ENABLE_ALB = FALSE])
              [] a = "--no-autoscaler" -> ParseArgs(Rest(args, 1), [o EXCEPT !.ENABLE_AUTOSCALER = FALSE])
              [] a = "--no-cloudwatch" -> ParseArgs(Rest(args, 1), [o EXCEPT !.ENABLE_CW_LOGGING = FALSE])
              [] a = "--help" -> [o EXCEPT !.status = "help"]
              [] OTHER -> [o EXCEPT !.status = "unknown"]

\* warn(): printed, and the script goes on.
Warn(text) == {<<"warn", text>>}
Info(text) == {<<"info", text>>}

InitEks ==
  /\ AppAtRest
  /\ AwsAtRest
  /\ ServerAtRest
  /\ EvalAtRest
  /\ eksArgv \in ArgLists
  /\ eksTools \in {RequiredTools, RequiredTools \ {"eksctl"}, RequiredTools \ {"helm"}}
  /\ eks = NoCluster
  /\ opt = DefaultOpt
  /\ eksPc = "idle"
  /\ eksRun = 0
  /\ eksCalls = <<>>
  /\ eksExit = -1
  /\ eksPrevExit = -1
  /\ eksFaults = 0
  /\ eksQErr = {}
  /\ eksOut = {}

\* A step that changes only the position, the terminal and the exit status.
EksLocal(pc, out, nextPc, exitCode) ==
  /\ eksPc = pc
  /\ eksOut' = eksOut \cup out
  /\ eksPc' = nextPc
  /\ eksExit' = exitCode
  /\ UNCHANGED <<eksArgv, eksTools, eks, opt, eksRun, eksCalls, eksPrevExit, eksFaults,
                 eksQErr, appVars, awsVars, srvVars, evalVars>>

\* What the script adds to a command line because of --kms: EKSCOMMAND gets
\* the bare flag --secrets-encryption when KMS_KEY_ID is not empty, and
\* KMS_KEY_ID itself is put on no command line.
EksFlags(cmd) ==
  IF cmd = "eksctl create cluster" /\ opt.KMS_KEY_ID # ""
    THEN {"--secrets-encryption"}
    ELSE {}

\* One external command and what the script does with its result.
EksCmd(pc, cmd, profile, fault, rc, newEks, newOpt, qerr, out, nextPc, exitCode) ==
  /\ eksPc = pc
  /\ fault => eksFaults < MaxFaults
  /\ eksFaults' = IF fault THEN eksFaults + 1 ELSE eksFaults
  /\ eksCalls' = Append(eksCalls, [cmd |-> cmd, rc |-> rc, profile |-> profile,
                                   flags |-> EksFlags(cmd)])
  /\ eks' = newEks
  /\ opt' = newOpt
  /\ eksQErr' = eksQErr \cup qerr
  /\ eksOut' = eksOut \cup out
  /\ eksPc' = nextPc
  /\ eksExit' = exitCode
  /\ UNCHANGED <<eksArgv, eksTools, eksRun, eksPrevExit, appVars, awsVars, srvVars, evalVars>>

\* An existence query used as the condition of an if, with
\* '>/dev/null 2>&1': status 0 takes the "already exists" branch.
EksQuery(pc, cmd, fault, rc, resource, existsText, skipPc, createPc) ==
  EksCmd(pc, cmd, <<>>, fault, rc, eks, opt,
         IF fault THEN {resource} ELSE {},
         IF rc = 0 THEN Info(existsText) ELSE {},
         IF rc = 0 THEN skipPc ELSE createPc, -1)

\* EksErrexit without 'set -e': the script goes on after a failed command.
EksErrexit_Ignored(pc, cmd, profile, fault, ok, newEks, newOpt, nextPc) ==
  EksCmd(pc, cmd, profile, fault, IF ok THEN 0 ELSE 1,
         IF ok THEN newEks ELSE eks,
         IF ok THEN newOpt ELSE opt,
         {}, IF ok THEN {} ELSE Stderr(cmd),
         nextPc, -1)

\* set -euo pipefail: a command that is not a condition and exits non-zero
\* ends the script with that status; its stderr is on the terminal.
EksErrexit(pc, cmd, profile, fault, ok, newEks, newOpt, nextPc) ==
  EksCmd(pc, cmd, profile, fault, IF ok THEN 0 ELSE 1,
         IF ok THEN newEks ELSE eks,
         IF ok THEN newOpt ELSE opt,
         {}, IF ok THEN {} ELSE Stderr(cmd),
         IF ok THEN nextPc ELSE "exited",
         IF ok THEN -1 ELSE 1)

\* EksTolerated without its '|| warn': the failure ends the script.
EksTolerated_Fatal(pc, cmd, fault, ok, newEks, warning, nextPc) ==
  EksCmd(pc, cmd, <<>>, fault, IF ok THEN 0 ELSE 1,
         IF ok THEN newEks ELSE eks, opt,
         {}, IF ok THEN {} ELSE Stderr(cmd),
         IF ok THEN nextPc ELSE "exited",
         IF ok THEN -1 ELSE 1)

\* cmd || warn "..." and cmd || true: a failure is shown (with the warning,
\* if any) and the script goes on.
EksTolerated(pc, cmd, fault, ok, newEks, warning, nextPc) ==
  EksCmd(pc, cmd, <<>>, fault, IF ok THEN 0 ELSE 1,
         IF ok THEN newEks ELSE eks, opt,
         {}, IF ok THEN {} ELSE Stderr(cmd) \cup warning,
         nextPc, -1)

\* The operator starts the script (again), with the same command line.
EksStart ==
  /\ eksPc \in {"idle", "exited"}
  /\ eksRun < MaxRuns
  /\ eksRun' = eksRun + 1
  /\ eksPrevExit' = eksExit
  /\ eksExit' = -1
  /\ eksPc' = "parse"
  /\ eksCalls' = <<>>
  /\ eksFaults' = 0
  /\ eksQErr' = {}
  /\ eksOut' = {}
  /\ opt' = DefaultOpt
  /\ UNCHANGED <<eksArgv, eksTools, eks, appVars, awsVars, srvVars, evalVars>>

\* EksParseArgs with 'exit 0' after the usage of an unknown word.
EksParseArgs_UnknownExitsZero ==
  /\ eksPc = "parse"
  /\ LET o == ParseArgs(eksArgv, DefaultOpt) IN
       /\ opt' = o
       /\ eksOut' = eksOut \cup
            CASE o.status = "help" -> {<<"usage", "">>}
              [] o.status = "unknown" -> {<<"echo", "Unknown arg">>, <<"usage", "">>}
              [] o.status = "unbound" -> Stderr("bash: $2: unbound variable")
              [] OTHER -> {}
       /\ eksPc' = IF o.status = "ok" THEN "tools" ELSE "exited"
       /\ eksExit' = CASE o.status = "ok" -> -1 [] o.status = "unbound" -> 1 [] OTHER -> 0
  /\ UNCHANGED <<eksArgv, eksTools, eks, eksRun, eksCalls, eksPrevExit, eksFaults, eksQErr,
                 appVars, awsVars, srvVars, evalVars>>

\* Parse args: --help prints the usage and exits 0, an unknown word prints
\* it and exits 1.
EksParseArgs ==
  /\ eksPc = "parse"
  /\ LET o == ParseArgs(eksArgv, DefaultOpt) IN
       /\ opt' = o
       /\ eksOut' = eksOut \cup
            CASE o.status = "help" -> {<<"usage", "">>}
              [] o.status = "unknown" -> {<<"echo", "Unknown arg">>, <<"usage", "">>}
              [] o.status = "unbound" -> Stderr("bash: $2: unbound variable")
              [] OTHER -> {}
       /\ eksPc' = IF o.status = "ok" THEN "tools" ELSE "exited"
       /\ eksExit' = CASE o.status = "ok" -> -1 [] o.status = "help" -> 0 [] OTHER -> 1
  /\ UNCHANGED <<eksArgv, eksTools, eks, eksRun, eksCalls, eksPrevExit, eksFaults, eksQErr,
                 appVars, awsVars, srvVars, evalVars>>

\* Ensure required tools: eksctl is downloaded with curl | tar when it is
\* missing (pipefail: a failed download ends the script); then require_cmd
\* fails (exit 1) on the first missing CLI.
EksCheckTools ==
  /\ eksPc = "tools"
  /\ \E fault \in BOOLEAN :
       LET download == "eksctl" \notin eksTools
           tools == IF download /\ ~fault THEN eksTools \cup {"eksctl"} ELSE eksTools
           ok == RequiredTools \subseteq tools
       IN /\ fault => download /\ eksFaults < MaxFaults
          /\ eksFaults' = IF fault THEN eksFaults + 1 ELSE eksFaults
          /\ eksTools' = tools
          /\ eksCalls' = IF download
                           THEN Append(eksCalls, [cmd |-> "curl", rc |-> IF fault THEN 1 ELSE 0,
                                                  profile |-> <<>>, flags |-> {}])
                           ELSE eksCalls
          /\ eksOut' = eksOut \cup
               (IF fault THEN Stderr("curl")
                ELSE IF ok THEN Info("Using AWS region") ELSE {<<"error", "Required command not found">>})
          /\ eksPc' = IF ok THEN "kms" ELSE "exited"
          /\ eksExit' = IF ok THEN -1 ELSE 1
  /\ UNCHANGED <<eksArgv, eks, opt, eksRun, eksPrevExit, eksQErr, appVars, awsVars, srvVars, evalVars>>

\* if [ "$KMS_CREATE" = true ]: KMS_OUTPUT=$(aws kms create-key $PROFILE ...).
\* There is no existence check: every run with --kms creates a key.
EksKmsKey ==
  IF opt.KMS_CREATE
    THEN \E fault \in BOOLEAN :
           EksErrexit("kms", "aws kms create-key", opt.PROFILE, fault, ~fault,
                      [eks EXCEPT !.kmsKeys = @ + 1], [opt EXCEPT !.KMS_KEY_ID = "arn:kms:key"],
                      "cluster_get")
    ELSE EksLocal("kms", {}, "cluster_get", -1)

\* if eksctl get cluster --region ... --name ... >/dev/null 2>&1
EksGetCluster ==
  \E fault \in BOOLEAN :
    EksQuery("cluster_get", "eksctl get cluster", fault,
             IF fault \/ ~eks.cluster THEN 1 ELSE 0,
             "cluster", "Cluster already exists - skipping create", "nodegroup_get",
             "cluster_create")

\* eval "${EKSCOMMAND[*]} $PROFILE": eksctl create cluster ... --managed
\* --with-oidc, with --secrets-encryption when a key was created.  Whether
\* eksctl accepts that flag depends on its version.
EksCreateCluster ==
  \E fault, flagAccepted \in BOOLEAN :
    /\ flagAccepted \/ opt.KMS_KEY_ID # ""
    /\ EksErrexit("cluster_create", "eksctl create cluster", opt.PROFILE, fault,
                  ~fault /\ ~eks.cluster /\ flagAccepted,
                  [eks EXCEPT !.cluster = TRUE, !.oidc = TRUE], opt, "nodegroup_get")

\* if eksctl get nodegroup --cluster ... --name ng-spot >/dev/null 2>&1
EksGetNodegroup ==
  \E fault \in BOOLEAN :
    EksQuery("nodegroup_get", "eksctl get nodegroup", fault,
             IF fault \/ ~eks.cluster \/ ~eks.spot THEN 1 ELSE 0,
             "spot", "Spot nodegroup already exists - skipping", "logging",
             "nodegroup_create")

\* eksctl create nodegroup ... --spot
EksCreateNodegroup ==
  \E fault \in BOOLEAN :
    EksErrexit("nodegroup_create", "eksctl create nodegroup", <<>>, fault,
               ~fault /\ eks.cluster /\ ~eks.spot,
               [eks EXCEPT !.spot = TRUE], opt, "logging")

\* if [ "$ENABLE_CW_LOGGING" = true ]: eksctl utils update-cluster-logging
\* ... || warn
EksLogging ==
  IF opt.ENABLE_CW_LOGGING
    THEN \E fault \in BOOLEAN :
           EksTolerated("logging", "eksctl utils update-cluster-logging", fault,
                        ~fault /\ eks.cluster, [eks EXCEPT !.logging = TRUE],
                        Warn("CloudWatch logging update returned non-zero"), "oidc")
    ELSE EksLocal("logging", {}, "oidc", -1)

\* eksctl utils associate-iam-oidc-provider ... --approve || warn
EksOidc ==
  \E fault \in BOOLEAN :
    EksTolerated("oidc", "eksctl utils associate-iam-oidc-provider", fault,
                 ~fault /\ eks.cluster, [eks EXCEPT !.oidc = TRUE],
                 Warn("OIDC provider association failed or already present"), "alb_sa")

\* EksAlbServiceAccount without the test of ENABLE_ALB.
EksAlbServiceAccount_Always ==
  \E fault \in BOOLEAN :
    EksTolerated("alb_sa", "eksctl create iamserviceaccount aws-load-balancer-controller", fault,
                 ~fault /\ eks.cluster /\ eks.oidc, [eks EXCEPT !.albSa = TRUE],
                 Warn("Failed to create IAM service account for ALB"), "helm_repo_add")

\* if [ "$ENABLE_ALB" = true ]: eksctl create iamserviceaccount --name
\* aws-load-balancer-controller ... --override-existing-serviceaccounts || warn
EksAlbServiceAccount ==
  IF opt.ENABLE_ALB
    THEN \E fault \in BOOLEAN :
           EksTolerated("alb_sa", "eksctl create iamserviceaccount aws-load-balancer-controller", fault,
                        ~fault /\ eks.cluster /\ eks.oidc, [eks EXCEPT !.albSa = TRUE],
                        Warn("Failed to create IAM service account for ALB"), "helm_repo_add")
    ELSE EksLocal("alb_sa", {}, "as_sa", -1)

\* helm repo add eks ... || true
EksHelmRepoAdd ==
  \E fault \in BOOLEAN :
    EksTolerated("helm_repo_add", "helm repo add", fault, ~fault, eks, {}, "helm_repo_update")

\* helm repo update
EksHelmRepoUpdate ==
  \E fault \in BOOLEAN :
    EksErrexit("helm_repo_update", "helm repo update", <<>>, fault, ~fault, eks, opt,
               "helm_install")

\* helm upgrade --install aws-load-balancer-controller ...
EksHelmInstall ==
  \E fault \in BOOLEAN :
    EksErrexit("helm_install", "helm upgrade --install", <<>>, fault, ~fault /\ eks.cluster,
               [eks EXCEPT !.albChart = TRUE], opt, "as_sa")

\* if [ "$ENABLE_AUTOSCALER" = true ]: eksctl create iamserviceaccount --name
\* cluster-autoscaler ... --override-existing-serviceaccounts || warn
EksAutoscalerServiceAccount ==
  IF opt.ENABLE_AUTOSCALER
    THEN \E fault \in BOOLEAN :
           EksTolerated("as_sa", "eksctl create iamserviceaccount cluster-autoscaler", fault,
                        ~fault /\ eks.cluster /\ eks.oidc, [eks EXCEPT !.asSa = TRUE],
                        Warn("Failed to create IAM service account for Cluster Autoscaler"),
                        "as_apply")
    ELSE EksLocal("as_sa", {}, "wait", -1)

\* kubectl apply -f .../cluster-autoscaler-autodiscover.yaml || warn
EksAutoscalerApply ==
  \E fault \in BOOLEAN :
    EksTolerated("as_apply", "kubectl apply", fault, ~fault /\ eks.cluster,
                 [eks EXCEPT !.asManifest = TRUE],
                 Warn("Autoscaler manifest apply may have failed"), "as_set_env")

\* kubectl -n kube-system set env deployment/cluster-autoscaler ... || true
EksAutoscalerSetEnv ==
  \E fault \in BOOLEAN :
    EksTolerated("as_set_env", "kubectl set env", fault, ~fault /\ eks.asManifest, eks, {},
                 "as_annotate")

\* kubectl -n kube-system annotate deployment cluster-autoscaler ... || true
EksAutoscalerAnnotate ==
  \E fault \in BOOLEAN :
    EksTolerated("as_annotate", "kubectl annotate", fault, ~fault /\ eks.asManifest, eks, {},
                 "wait")

\* kubectl wait --for=condition=Ready nodes --all --timeout=600s || warn
EksWaitNodes ==
  \E fault \in BOOLEAN :
    EksTolerated("wait", "kubectl wait", fault, ~fault /\ eks.cluster, eks,
                 Warn("Timeout waiting for nodes"), "get_pods")

\* kubectl -n kube-system get pods --no-headers
EksGetPods ==
  \E fault \in BOOLEAN :
    EksErrexit("get_pods", "kubectl get pods", <<>>, fault, ~fault /\ eks.cluster, eks, opt,
               "complete")

\* info "EKS cluster setup completed ..."; the notes; the script ends with
\* status 0.
EksComplete == EksLocal("complete", Info("EKS cluster setup completed"), "exited", 0)

NextEks ==
  \/ EksStart
  \/ EksParseArgs
  \/ EksCheckTools
  \/ EksKmsKey
  \/ EksGetCluster
  \/ EksCreateCluster
  \/ EksGetNodegroup
  \/ EksCreateNodegroup
  \/ EksLogging
  \/ EksOidc
  \/ EksAlbServiceAccount
  \/ EksHelmRepoAdd
  \/ EksHelmRepoUpdate
  \/ EksHelmInstall
  \/ EksAutoscalerServiceAccount
  \/ EksAutoscalerApply
  \/ EksAutoscalerSetEnv
  \/ EksAutoscalerAnnotate
  \/ EksWaitNodes
  \/ EksGetPods
  \/ EksComplete

SpecEks == InitEks /\ [][NextEks]_vars

(***************************************************************************)
(*                      Claims about setup-eks.sh                          *)
(***************************************************************************)

\* The current run has invoked cmd.
EksInvoked(cmd) == \E i \in DOMAIN eksCalls : eksCalls[i].cmd = cmd

\* The resource-creating commands of setup-eks.sh.
EksCreatingCommands ==
  {"aws kms create-key", "eksctl create cluster", "eksctl create nodegroup",
   "eksctl create iamserviceaccount aws-load-balancer-controller",
   "eksctl create iamserviceaccount cluster-autoscaler"}

\* The cluster, the spot node group and the service accounts of the enabled
\* add-ons exist.
EksAllPresent ==
  /\ eks.cluster /\ eks.spot
  /\ opt.ENABLE_ALB => eks.albSa
  /\ opt.ENABLE_AUTOSCALER => eks.asSa

\* C5: a second run with the same arguments, after a run that exited 0 and
\* with the cluster, node groups and service accounts present and nothing
\* failing, invokes no resource-creating command and exits 0.
C5_EksRerunCreatesNothing ==
  (eksRun >= 2 /\ eksPrevExit = 0 /\ eksFaults = 0 /\ eksPc \notin {"parse", "tools"}
     /\ EksAllPresent)
    => /\ \A i \in DOMAIN eksCalls : eksCalls[i].cmd \notin EksCreatingCommands
       /\ eksPc = "exited" => eksExit = 0

\* The existence-guarded steps of setup-eks.sh.
EksGuardedSteps ==
  { [res |-> "cluster", query |-> "eksctl get cluster", create |-> "eksctl create cluster"],
    [res |-> "spot", query |-> "eksctl get nodegroup", create |-> "eksctl create nodegroup"] }

\* C7 (setup-eks.sh): when eksctl get cluster or eksctl get nodegroup fails
\* for a reason other than the resource being absent, the run aborts with a
\* non-zero status, no create command is invoked for the resource and the
\* tool's error text is on the terminal.
C7_EksQueryFailureAborts ==
  \A g \in EksGuardedSteps :
    g.res \in eksQErr
      => /\ eksPc = "exited"
         /\ eksExit > 0
         /\ ~EksInvoked(g.create)
         /\ Stderr(g.query) \subseteq eksOut

\* The commands of the steps after the CloudWatch logging step, given the
\* options.
StepsAfterLogging ==
  {"eksctl utils associate-iam-oidc-provider", "kubectl wait", "kubectl get pods"}
  \cup (IF opt.ENABLE_ALB
          THEN {"eksctl create iamserviceaccount aws-load-balancer-controller",
                "helm repo add", "helm repo update", "helm upgrade --install"}
          ELSE {})
  \cup (IF opt.ENABLE_AUTOSCALER
          THEN {"eksctl create iamserviceaccount cluster-autoscaler", "kubectl apply",
                "kubectl set env", "kubectl annotate"}
          ELSE {})

\* C9: a failure of eksctl create cluster or eksctl create nodegroup ends the
\* run with a non-zero status before any later command; a failure of the
\* CloudWatch logging enablement prints a warning, the OIDC step follows it,
\* and a run that then exits 0 has run every later step.
C9_CreateFailureAbortsLoggingFailureWarns ==
  \A i \in DOMAIN eksCalls :
    /\ (eksCalls[i].cmd \in {"eksctl create cluster", "eksctl create nodegroup"}
          /\ eksCalls[i].rc # 0)
         => (i = Len(eksCalls) /\ eksPc = "exited" /\ eksExit > 0)
    /\ (eksCalls[i].cmd = "eksctl utils update-cluster-logging" /\ eksCalls[i].rc # 0)
         => /\ Warn("CloudWatch logging update returned non-zero") \subseteq eksOut
            /\ IF i = Len(eksCalls)
                 THEN eksPc = "oidc" /\ eksExit = -1
                 ELSE eksCalls[i + 1].cmd = "eksctl utils associate-iam-oidc-provider"
            /\ (eksPc = "exited" /\ eksExit = 0)
                 => \A c \in StepsAfterLogging : EksInvoked(c)

\* The logging enablement failed and the run went on to complete.
C9_Witness ==
  /\ \E i \in DOMAIN eksCalls :
       eksCalls[i].cmd = "eksctl utils update-cluster-logging" /\ eksCalls[i].rc # 0
  /\ eksPc = "exited"
  /\ eksExit = 0
  /\ EksInvoked("kubectl get pods")

\* eksctl create nodegroup failed after the cluster was created in this run.
C9_WitnessCreateFails ==
  /\ EksInvoked("eksctl create cluster")
  /\ eksCalls[Len(eksCalls)].cmd = "eksctl create nodegroup"
  /\ eksCalls[Len(eksCalls)].rc # 0
  /\ eksPc = "exited"

\* C15: with --kms the cluster is created with secrets encryption under the
\* key the run created: the key's ARN is on the command line of eksctl create
\* cluster, and a run that has created a key and got past the cluster step
\* has invoked eksctl create cluster.
C15_KmsKeyEncryptsCluster ==
  \A i \in DOMAIN eksCalls :
    /\ eksCalls[i].cmd = "eksctl create cluster" /\ opt.KMS_CREATE
         => opt.KMS_KEY_ID \in eksCalls[i].flags
    /\ (eksCalls[i].cmd = "aws kms create-key" /\ eksCalls[i].rc = 0
          /\ eksPc \notin {"cluster_get", "cluster_create"})
         => EksInvoked("eksctl create cluster")

\* The aws and eksctl commands of the script.
AwsAndEksctlCommands ==
  {"aws kms create-key", "eksctl get cluster", "eksctl create cluster",
   "eksctl get nodegroup", "eksctl create nodegroup",
   "eksctl utils update-cluster-logging", "eksctl utils associate-iam-oidc-provider",
   "eksctl create iamserviceaccount aws-load-balancer-controller",
   "eksctl create iamserviceaccount cluster-autoscaler"}

\* C16: with --profile P, every aws and eksctl command of the run is
\* executed under profile P.
C16_ProfileOnEveryCommand ==
  opt.PROFILE # <<>>
    => \A i \in DOMAIN eksCalls :
         eksCalls[i].cmd \in AwsAndEksctlCommands => eksCalls[i].profile = opt.PROFILE

\* The commands of the three optional steps.
AlbCommands ==
  {"eksctl create iamserviceaccount aws-load-balancer-controller", "helm repo add",
   "helm repo update", "helm upgrade --install"}

AutoscalerCommands ==
  {"eksctl create iamserviceaccount cluster-autoscaler", "kubectl apply", "kubectl set env",
   "kubectl annotate"}

CloudWatchCommands == {"eksctl utils update-cluster-logging"}

\* The commands the current run has invoked.
EksInvokedSet == {eksCalls[i].cmd : i \in DOMAIN eksCalls}

\* The commands whose invocation depends on what exists, not on the options.
EksStateDependent == {"curl", "eksctl create cluster", "eksctl create nodegroup"}

\* The commands a complete run invokes, each step depending on its own
\* option only.
EksExpectedCommands ==
  {"eksctl get cluster", "eksctl get nodegroup", "eksctl utils associate-iam-oidc-provider",
   "kubectl wait", "kubectl get pods"}
  \cup (IF opt.KMS_CREATE THEN {"aws kms create-key"} ELSE {})
  \cup (IF opt.ENABLE_CW_LOGGING THEN CloudWatchCommands ELSE {})
  \cup (IF opt.ENABLE_ALB THEN AlbCommands ELSE {})
  \cup (IF opt.ENABLE_AUTOSCALER THEN AutoscalerCommands ELSE {})

\* C17: with --no-alb, --no-autoscaler or --no-cloudwatch the run invokes
\* none of the commands of the corresponding step, and a complete run
\* invokes the commands of every other step exactly as without the flag.
C17_DisabledStepSkippedOthersKept ==
  /\ ~opt.ENABLE_ALB => EksInvokedSet \cap AlbCommands = {}
  /\ ~opt.ENABLE_AUTOSCALER => EksInvokedSet \cap AutoscalerCommands = {}
  /\ ~opt.ENABLE_CW_LOGGING => EksInvokedSet \cap CloudWatchCommands = {}
  /\ (eksPc = "exited" /\ eksExit = 0 /\ opt.status = "ok")
       => EksInvokedSet \ EksStateDependent = EksExpectedCommands

\* A run with --no-alb has completed and has installed the autoscaler and
\* enabled logging.
C17_Witness ==
  /\ eksArgv = <<"--no-alb">>
  /\ ~opt.ENABLE_ALB
  /\ eksPc = "exited"
  /\ eksExit = 0
  /\ EksInvoked("kubectl annotate")
  /\ EksInvoked("eksctl utils update-cluster-logging")

\* The options of the usage text, and those followed by a value.
UsageOptions ==
  {"--cluster-name", "--region", "--node-type", "--kms", "--profile", "--no-alb",
   "--no-autoscaler", "--no-cloudwatch", "--help"}

ValueOptions == {"--cluster-name", "--region", "--node-type", "--profile"}

\* Word i of the command line stands where an option is expected: it is the
\* first word, or it follows an option without value, or the value of an
\* option.
RECURSIVE InOptionPosition(_, _)
InOptionPosition(args, i) ==
  \/ i = 1
  \/ i >= 2 /\ InOptionPosition(args, i - 1) /\ args[i - 1] \notin ValueOptions
  \/ i >= 3 /\ InOptionPosition(args, i - 2) /\ args[i - 2] \in ValueOptions

\* The positions where the command line has --help or an unrecognised
\* word as an option (a word that is the value of an option is neither), and
\* the first of them (0 when there is none).
DecisiveWords(args) ==
  {i \in DOMAIN args :
     /\ InOptionPosition(args, i)
     /\ args[i] = "--help" \/ args[i] \notin UsageOptions}

FirstDecisiveWord(args) ==
  IF DecisiveWords(args) = {} THEN 0
  ELSE CHOOSE i \in DecisiveWords(args) : \A j \in DecisiveWords(args) : i <= j

\* C18: given an unrecognised option the script prints the usage and exits
\* 1, given --help it prints the usage and exits 0 (the first of them on the
\* command line decides); in both cases it ends before any external tool
\* is invoked.
C18_UsageBeforeAnyTool ==
  LET d == FirstDecisiveWord(eksArgv) IN
    (d > 0 /\ eksRun > 0 /\ eksPc # "parse")
      => /\ eksPc = "exited"
         /\ eksExit = IF eksArgv[d] = "--help" THEN 0 ELSE 1
         /\ <<"usage", "">> \in eksOut
         /\ eksCalls = <<>>

\* An unrecognised word after a valid option has ended the run.
C18_Witness ==
  /\ eksArgv = <<"--kms", "prod">>
  /\ eksRun = 1
  /\ eksPc = "exited"
  /\ eksExit = 1
  /\ eksCalls = <<>>

\* The commands that create an IAM service account.
ServiceAccountCommands ==
  {"eksctl create iamserviceaccount aws-load-balancer-controller",
   "eksctl create iamserviceaccount cluster-autoscaler"}

\* C21: eksctl create iamserviceaccount is invoked only after the IAM OIDC
\* provider association has succeeded in that run.
C21_ServiceAccountAfterOidc ==
  \A i \in DOMAIN eksCalls :
    eksCalls[i].cmd \in ServiceAccountCommands
      => \E j \in 1..(i - 1) :
           /\ eksCalls[j].cmd = "eksctl utils associate-iam-oidc-provider"
           /\ eksCalls[j].rc = 0

\* The run was given no option, printed the completion message and exited 0.
EksDefaultRunCompleted ==
  /\ eksArgv = <<>>
  /\ eksPc = "exited"
  /\ eksExit = 0
  /\ Info("EKS cluster setup completed") \subseteq eksOut

\* C24: when a run with default options prints 'EKS cluster setup completed'
\* and exits 0, the cluster and the spot nodegroup exist and the AWS Load
\* Balancer Controller and the Cluster Autoscaler are installed, each with
\* its IAM service account.
C24_CompletedMeansInstalled ==
  EksDefaultRunCompleted
    => /\ eks.cluster /\ eks.spot
       /\ eks.albSa /\ eks.albChart
       /\ eks.asSa /\ eks.asManifest

(***************************************************************************)
(*                              server.js                                  *)
(*                                                                         *)
(* const server = app.listen(PORT, ...), and the SIGTERM and SIGINT        *)
(* handlers, which call server.close(() => process.exit(0)).               *)
(***************************************************************************)

\* Signals delivered to one process.
MaxSignals == 2

InitServer ==
  /\ AppAtRest
  /\ AwsAtRest
  /\ EksAtRest
  /\ ServerAtRest
  /\ EvalAtRest

\* Connections that are not closed.
OpenConns == {c \in Conns : connections[c] # "closed"}

\* Drained as it would be if 'close' did not wait for the connections.
Drained_NoWait == TRUE

\* net.Server emits 'close' once close() has been called and every
\* connection has ended.
Drained == OpenConns = {}

\* A client connects: the listening socket accepts it.  After close() the
\* listening handle is gone and connections are refused.
Connect(c) ==
  /\ serverState = "listening"
  /\ connections[c] = "closed"
  /\ connections' = [connections EXCEPT ![c] = "idle"]
  /\ UNCHANGED <<serverState, signals, closeListeners, processExit, openAtSignal,
                 appVars, awsVars, eksVars, evalVars>>

\* A request arrives on an open connection; the app serves it, also while
\* the server is closing.
Request(c) ==
  /\ serverState # "exited"
  /\ connections[c] = "idle"
  /\ connections' = [connections EXCEPT ![c] = "active"]
  /\ UNCHANGED <<serverState, signals, closeListeners, processExit, openAtSignal,
                 appVars, awsVars, eksVars, evalVars>>

\* The response is written; the connection is kept alive.
Respond(c) ==
  /\ serverState # "exited"
  /\ connections[c] = "active"
  /\ connections' = [connections EXCEPT ![c] = "idle"]
  /\ UNCHANGED <<serverState, signals, closeListeners, processExit, openAtSignal,
                 appVars, awsVars, eksVars, evalVars>>

\* The connection ends: the client closes it, or the server's keep-alive
\* timeout destroys it.
Disconnect(c) ==
  /\ serverState # "exited"
  /\ connections[c] # "closed"
  /\ connections' = [connections EXCEPT ![c] = "closed"]
  /\ UNCHANGED <<serverState, signals, closeListeners, processExit, openAtSignal,
                 appVars, awsVars, eksVars, evalVars>>

\* process.on('SIGTERM' | 'SIGINT'): log, then server.close(callback).
\* close() stops listening and registers the callback on 'close'; on a
\* server that is already closing it only registers the callback.
Signal(sig) ==
  /\ serverState # "exited"
  /\ Len(signals) < MaxSignals
  /\ signals' = Append(signals, sig)
  /\ serverState' = "closing"
  /\ closeListeners' = closeListeners + 1
  /\ openAtSignal' = IF signals = <<>> THEN Cardinality(OpenConns) ELSE openAtSignal
  /\ UNCHANGED <<connections, processExit, appVars, awsVars, eksVars, evalVars>>

\* 'close' is emitted; the first registered callback runs process.exit(0).
EmitClose ==
  /\ serverState = "closing"
  /\ Drained
  /\ closeListeners > 0
  /\ serverState' = "exited"
  /\ processExit' = 0
  /\ UNCHANGED <<connections, signals, closeListeners, openAtSignal, appVars, awsVars, eksVars, evalVars>>

NextServer ==
  \/ \E c \in Conns : Connect(c)
  \/ \E c \in Conns : Request(c)
  \/ \E c \in Conns : Respond(c)
  \/ \E c \in Conns : Disconnect(c)
  \/ \E sig \in {"SIGTERM", "SIGINT"} : Signal(sig)
  \/ EmitClose

\* Every connection ends at some time, and the event loop runs the 'close'
\* callback once the event is due.
SpecServer ==
  /\ InitServer
  /\ [][NextServer]_vars
  /\ \A c \in Conns : WF_vars(Disconnect(c))
  /\ WF_vars(EmitClose)

\* A signal has been delivered.
Signalled == signals # <<>>

MaxValueLen == 2

\* The characters of an option value: a letter, a space and the command
\* separator.
ValueChars == {"a", " ", ";"}

\* The values the operator may give to --cluster-name, --region and
\* --node-type.
OptionValues == UNION {[1..n -> ValueChars] : n \in 1..MaxValueLen}

\* PROFILE="--profile $2", or empty when --profile is not given.
ProfileTexts == {<<>>, <<"--profile", " ", "prod">>}

\* "${EKSCOMMAND[*]}": the words joined by single spaces.
RECURSIVE JoinWords(_)
JoinWords(ws) ==
  IF ws = <<>> THEN <<>>
  ELSE IF Len(ws) = 1 THEN ws[1]
  ELSE ws[1] \o <<" ">> \o JoinWords(Tail(ws))

\* The shell reading a line: spaces separate words, ';' ends a command, a
\* ';' with no command before it is a syntax error and nothing is run.
RECURSIVE ShellParse(_, _, _, _, _)
ShellParse(str, i, word, argv, cmds) ==
  LET argv2 == IF word = <<>> THEN argv ELSE Append(argv, word) IN
    IF i > Len(str)
      THEN [syntaxError |-> FALSE,
            commands |-> IF argv2 = <<>> THEN cmds ELSE Append(cmds, argv2)]
    ELSE IF str[i] = " "
      THEN ShellParse(str, i + 1, <<>>, argv2, cmds)
    ELSE IF str[i] = ";"
      THEN IF argv2 = <<>>
             THEN [syntaxError |-> TRUE, commands |-> <<>>]
             ELSE ShellParse(str, i + 1, <<>>, <<>>, Append(cmds, argv2))
    ELSE ShellParse(str, i + 1, Append(word, str[i]), argv, cmds)

\* The options are parsed (CLUSTER_NAME="$2" keeps the value as given) and
\* the cluster does not exist yet.
InitEval ==
  /\ AppAtRest
  /\ AwsAtRest
  /\ EksAtRest
  /\ ServerAtRest
  /\ cmdOpt \in [CLUSTER_NAME : OptionValues, REGION : OptionValues,
                  NODE_TYPE : OptionValues, PROFILE : ProfileTexts]
  /\ EKSCOMMAND = <<>>
  /\ cmdRan = NoRan
  /\ cmdPc = "build"

\* EKSCOMMAND=( eksctl create cluster --name "$CLUSTER_NAME" ... )
EksBuildCommand ==
  /\ cmdPc = "build"
  /\ EKSCOMMAND' =
       <<Word("eksctl"), Word("create"), Word("cluster"),
         Word("--name"), cmdOpt.CLUSTER_NAME,
         Word("--region"), cmdOpt.REGION,
         Word("--nodegroup-name"), Word("ng-ondemand"),
         Word("--node-type"), cmdOpt.NODE_TYPE,
         Word("--nodes"), Word("2"),
         Word("--nodes-min"), Word("1"),
         Word("--nodes-max"), Word("4"),
         Word("--managed"), Word("--with-oidc")>>
  /\ cmdPc' = "eval"
  /\ UNCHANGED <<cmdOpt, cmdRan, appVars, awsVars, eksVars, srvVars>>

\* eval "${EKSCOMMAND[*]} $PROFILE", or eval "${EKSCOMMAND[*]}" when PROFILE
\* is empty.
EksEvalCommand ==
  /\ cmdPc = "eval"
  /\ LET text == IF cmdOpt.PROFILE # <<>>
                   THEN JoinWords(EKSCOMMAND) \o <<" ">> \o cmdOpt.PROFILE
                   ELSE JoinWords(EKSCOMMAND) IN
       cmdRan' = ShellParse(text, 1, <<>>, <<>>, <<>>)
  /\ cmdPc' = "done"
  /\ UNCHANGED <<cmdOpt, EKSCOMMAND, appVars, awsVars, eksVars, srvVars>>

NextEval ==
  \/ EksBuildCommand
  \/ EksEvalCommand

SpecEval == InitEval /\ [][NextEval]_vars

\* The argument list eksctl is meant to receive: the words of the array,
\* and --profile with its value when a profile is given.
IntendedArgv ==
  EKSCOMMAND \o (IF cmdOpt.PROFILE # <<>> THEN <<Word("--profile"), Word("prod")>> ELSE <<>>)

\* C28: the values of --cluster-name, --region and --node-type reach eksctl
\* create cluster unchanged, each as a single argument: eval runs exactly
\* one command, whose words are those of the array.
C28_ValuesPassedUnchanged ==
  cmdPc = "done"
    => /\ ~cmdRan.syntaxError
       /\ Len(cmdRan.commands) = 1
       /\ cmdRan.commands[1] = IntendedArgv

====
